---- MODULE Spec2Model ----
(***************************************************************************)
(* State-machine model of fpl::FontManager (src/src/font_manager.cpp):     *)
(* the engine session made by Initialize and ended by Terminate, the       *)
(* manager object with its constructor and destructor, the font handle     *)
(* opened by Open and released by Close, and GetTexture, which shapes a    *)
(* text, rasterizes its glyphs into one 8-bit image, refines the font      *)
(* metrics per glyph and caches the resulting texture by text.             *)
(*                                                                         *)
(* GetTexture is a sequence of steps (pc): the cache lookup and shaping,   *)
(* then for each glyph load, refine, wrap, check, blit, and at the end     *)
(* the finalization.  The operations that release engine objects (Close,   *)
(* Terminate, the failure path of Open) take one step per release, in the  *)
(* order of their statements.  The program is single threaded: while a     *)
(* call is in progress no other operation runs.                            *)
(***************************************************************************)
EXTENDS Integers, Sequences, FiniteSets, TLC

\* ------------------------------------------------------------------ bounds
\* Longest text handed to GetTexture in the pipeline specification.
MaxLen == 3
\* Most GetTexture cache misses started in a behaviour of the cache
\* specification.
MaxCalls == 3
\* Most GetTexture cache misses started in a behaviour of the session and
\* lifetime specifications.
MaxSessionCalls == 2
\* Face headers and pixel sizes of the metrics specification: ascender in
\* -MaxAscender .. MaxAscender, units_per_EM in 1 .. MaxUnitsPerEM, ysize in
\* 1 .. MaxYSize.
MaxAscender == 6
MaxUnitsPerEM == 4
MaxYSize == 4

\* --------------------------------------------------------------- constants
\* Fixed-point factor of shaping advances (26.6), font_manager.h.
kFreeTypeUnit == 64
\* uint32_t kGlyphPadding = 0;
kGlyphPadding == 0

\* A null pointer; textures are identified by positive numbers.
NULL == 0

\* ------------------------------------------------------- the environment
\* Characters of the texts (stand-ins for UTF-8 bytes).
Chars == 11 .. 17

\* Font files the caller may name in Open.  "missing" cannot be loaded,
\* "garbage" loads but is no font, "font" is a usable font whose header has
\* ascender 800 and units_per_EM 1000.
FontNames == {"missing", "garbage", "font"}

FaceHeader == [ascender |-> 800, units_per_EM |-> 1000]

\* The header fields of a face that does not exist.
NoHeader == [ascender |-> 0, units_per_EM |-> 0]

\* Pixel sizes the caller asks for.
YSizes == {2, 4, 5}

\* The glyphs of the face.  Index 0 is .notdef, the glyph of every code
\* point the face does not map.  Bitmap extents are in pixels, advances in
\* 1/64 pixel.  A glyph with loadable = FALSE makes FT_Load_Glyph fail;
\* glyph 7 is the space, which has an advance and an empty bitmap.
\* Horizontal left-to-right shaping gives y_advance = 0.
GlyphTable ==
  [gid \in 0 .. 7 |->
     CASE gid = 0 -> [loadable |-> TRUE,  width |-> 1, rows |-> 1, bitmap_left |-> 0,  bitmap_top |-> 1, x_advance |-> 64,  y_advance |-> 0]
       [] gid = 1 -> [loadable |-> TRUE,  width |-> 1, rows |-> 1, bitmap_left |-> 0,  bitmap_top |-> 4, x_advance |-> 64,  y_advance |-> 0]
       [] gid = 2 -> [loadable |-> TRUE,  width |-> 1, rows |-> 2, bitmap_left |-> 0,  bitmap_top |-> 5, x_advance |-> 64,  y_advance |-> 0]
       [] gid = 3 -> [loadable |-> TRUE,  width |-> 1, rows |-> 2, bitmap_left |-> 0,  bitmap_top |-> 0, x_advance |-> 64,  y_advance |-> 0]
       [] gid = 4 -> [loadable |-> TRUE,  width |-> 2, rows |-> 1, bitmap_left |-> -1, bitmap_top |-> 1, x_advance |-> 128, y_advance |-> 0]
       [] gid = 5 -> [loadable |-> TRUE,  width |-> 3, rows |-> 1, bitmap_left |-> 0,  bitmap_top |-> 1, x_advance |-> 160, y_advance |-> 0]
       [] gid = 6 -> [loadable |-> FALSE, width |-> 0, rows |-> 0, bitmap_left |-> 0,  bitmap_top |-> 0, x_advance |-> 64,  y_advance |-> 0]
       [] gid = 7 -> [loadable |-> TRUE,  width |-> 0, rows |-> 0, bitmap_left |-> 0,  bitmap_top |-> 0, x_advance |-> 64,  y_advance |-> 0]]

\* The face's character map: code point -> glyph index, .notdef otherwise.
CMap(cp) == IF cp \in Chars THEN cp - 10 ELSE 0

\* Coverage value of pixel (x, y) of a rendered glyph: every pixel of the
\* bitmap is covered, and the value tells the glyphs apart.
BitmapPixel(gid, x, y) == gid + 1

\* ------------------------------------------------------------- operators
\* mathfu::RoundUpToPowerOf2: the smallest power of two >= n, and >= 1.
RECURSIVE Pow2From(_, _)
Pow2From(p, n) == IF p >= n THEN p ELSE Pow2From(2 * p, n)
RoundUpToPowerOf2(n) == Pow2From(1, n)

IsPowerOf2(n) == \E k \in 0 .. 10 : n = 2 ^ k

\* a >= b as the build compares two uint32_t values, for a and b that are
\* int32_t values converted to uint32_t: a negative value converts to
\* 2^32 + value, above every non-negative one.
UGeq32(a, b) ==
  IF (a < 0) = (b < 0) THEN a >= b ELSE a < 0

Max(a, b) == IF a >= b THEN a ELSE b
Min(a, b) == IF a <= b THEN a ELSE b

\* FontMetrics (font_manager.h).
FontMetrics(bl, il, asc, desc, el) ==
  [base_line |-> bl, internal_leading |-> il, ascender |-> asc,
   descender |-> desc, external_leading |-> el]

total(m) == m.internal_leading + m.ascender - m.descender - m.external_leading

NoMetrics == FontMetrics(0, 0, 0, 0, 0)

\* The conversion of the quotient a / b of two float values that hold
\* integers, b > 0, to int32_t: the fraction is dropped, towards zero.
TruncDiv(a, b) == IF a >= 0 THEN a \div b ELSE -((-a) \div b)

\* Lines 112-113: the metrics GetTexture starts from, for a face header and
\* an integer ysize.
InitialMetrics(header, y) ==
  LET b == TruncDiv(y * header.ascender, header.units_per_EM)
  IN FontMetrics(b, 0, b, b - y, 0)

\* hb_shape: every item of the buffer is read as a code point and replaced
\* by the glyph the face maps it to.
hb_shape(buf) == [k \in 1 .. Len(buf) |-> CMap(buf[k])]

RECURSIVE SumAdvance(_, _)
SumAdvance(buf, n) ==
  IF n = 0 THEN 0 ELSE SumAdvance(buf, n - 1) + GlyphTable[buf[n]].x_advance

\* The empty cache.
NoTextures == [t \in {} |-> 0]

\* A zeroed plane of n bytes.
ZeroImage(n) == [j \in 0 .. n - 1 |-> 0]

\* ------------------------------------------------------------------ state
VARIABLES
  ft_,                \* FT_Library *FontManager::ft_: "null" or "live"
  hb_buffer,          \* hb_buffer_t *FontManager::harfbuzz_buf_ as a
                      \* pointer: "null", or "live" for a buffer object
  harfbuzz_buf_,      \* contents of the shared shaping buffer (code points
                      \* before hb_shape, glyph indices after it)
  manager,            \* the FontManager object: "alive", "destroying"
                      \* (inside its destructor) or "destroyed"
  face_initialized_,  \* bool face_initialized_
  font_data_,         \* std::string font_data_: "" or the bytes of a file
  face_,              \* FT_Face face_: "unset", "live" or "destroyed"
  harfbuzz_font_,     \* hb_font_t *: "unset", "null", "live" or "destroyed"
  face_header,        \* face_->ascender and face_->units_per_EM
  face_size,          \* pixel size of face_ set by FT_Set_Pixel_Sizes
  map_textures_,      \* the cache: text -> texture
  op,                 \* the latest operation called
  text, ysize,        \* arguments of the latest call, if a GetTexture
  pc,                 \* position inside the operation in progress
  string_width, width, height,   \* locals of GetTexture
  initial_metrics, image, atlasX, atlasY, i,
  glyph,              \* FT_GlyphSlot g = face_->glyph (a glyph index)
  ret,                \* pointer returned by the latest call, if a GetTexture
  ok,                 \* value returned by the latest call, if an Open or Close
  calls               \* cache misses started so far

sessionVars == <<ft_, hb_buffer, harfbuzz_buf_>>
handleVars  == <<manager, face_initialized_, font_data_, face_,
                 harfbuzz_font_, face_header>>
localVars   == <<string_width, width, height, initial_metrics, image,
                 atlasX, atlasY, i>>
vars == <<ft_, hb_buffer, harfbuzz_buf_, manager, face_initialized_,
          font_data_, face_, harfbuzz_font_, face_header, face_size,
          map_textures_, op, text, ysize, pc,
          string_width, width, height, initial_metrics, image, atlasX,
          atlasY, i, glyph, ret, ok, calls>>

\* The glyph slot before any glyph was loaded.
NoGlyph == -1

g == GlyphTable[glyph]

\* The state after FontManager::FontManager(): Initialize() has created the
\* library and the shaping buffer, no font is open, the cache is empty.
Init ==
  /\ ft_ = "live"
  /\ hb_buffer = "live"
  /\ harfbuzz_buf_ = <<>>
  /\ manager = "alive"
  /\ face_initialized_ = FALSE
  /\ font_data_ = ""
  /\ face_ = "unset"
  /\ harfbuzz_font_ = "unset"
  /\ face_header = NoHeader
  /\ face_size = 0
  /\ map_textures_ = NoTextures
  /\ op = "none"
  /\ text = <<>>
  /\ ysize = 0
  /\ pc = "idle"
  /\ string_width = 0
  /\ width = 0
  /\ height = 0
  /\ initial_metrics = NoMetrics
  /\ image = ZeroImage(0)
  /\ atlasX = 0
  /\ atlasY = 0
  /\ i = 0
  /\ glyph = NoGlyph
  /\ ret = NULL
  /\ ok = FALSE
  /\ calls = 0

\* The locals of GetTexture go out of scope when it returns.
ClearLocals ==
  /\ string_width' = 0
  /\ width' = 0
  /\ height' = 0
  /\ initial_metrics' = NoMetrics
  /\ image' = ZeroImage(0)
  /\ atlasX' = 0
  /\ atlasY' = 0
  /\ i' = 0

\* op, text, ysize, ret and ok describe the latest call only: a call of
\* Open or Close has no text, pixel size or texture.
NoTextureCall ==
  /\ text' = <<>>
  /\ ysize' = 0
  /\ ret' = NULL

\* ------------------------------------------------ the engine session
\* void FontManager::Initialize(), the part common to its callers: the
\* session pointers, the position, and what no caller of it touches.  err
\* is what FT_Init_FreeType returns.  A failed assertion stops the process.
Initialize(err) ==
  /\ pc = "idle"
  /\ IF ft_ # "null" THEN
       \* assert(ft_ == nullptr)
       /\ pc' = "assert_failed"
       /\ UNCHANGED sessionVars
     ELSE IF err # 0 THEN
       \* Can't initialize freetype: ft_ points to an FT_Library that
       \* holds no library, assert(0)
       /\ ft_' = "invalid"
       /\ pc' = "assert_failed"
       /\ UNCHANGED <<hb_buffer, harfbuzz_buf_>>
     ELSE
       /\ ft_' = "live"
       /\ hb_buffer' = "live"
       /\ harfbuzz_buf_' = <<>>
       /\ UNCHANGED pc
  /\ text' = <<>>
  /\ ysize' = 0
  /\ ret' = NULL
  /\ ok' = FALSE
  /\ UNCHANGED <<face_size, map_textures_, localVars, glyph, calls>>

\* A call of the static function Initialize by the program.
InitializeCall(err) ==
  /\ Initialize(err)
  /\ op' = "Initialize"
  /\ UNCHANGED handleVars

\* void FontManager::Terminate(), lines 58-61: the assertion and the
\* destruction of the shaping buffer, whose contents go with it.
Terminate ==
  /\ pc = "idle"
  /\ op' = "Terminate"
  /\ IF ft_ = "null" THEN
       \* assert(ft_ != nullptr)
       /\ pc' = "assert_failed"
       /\ UNCHANGED <<hb_buffer, harfbuzz_buf_>>
     ELSE
       /\ hb_buffer' = "null"
       /\ harfbuzz_buf_' = <<>>
       /\ pc' = "FT_Done_FreeType"
  /\ text' = <<>>
  /\ ysize' = 0
  /\ ret' = NULL
  /\ ok' = FALSE
  /\ UNCHANGED <<ft_, handleVars, face_size, map_textures_, localVars,
                 glyph, calls>>

\* Lines 63-64: FT_Done_FreeType destroys the library and with it every
\* face the library still holds; no field of a manager is touched.
TerminateDoneLibrary ==
  /\ pc = "FT_Done_FreeType"
  /\ ft_' = "null"
  /\ IF face_ = "live"
     THEN /\ face_' = "destroyed"
          /\ face_header' = NoHeader
          /\ face_size' = 0
          /\ glyph' = NoGlyph
     ELSE UNCHANGED <<face_, face_header, face_size, glyph>>
  /\ pc' = "idle"
  /\ UNCHANGED <<hb_buffer, harfbuzz_buf_, manager, face_initialized_,
                 font_data_, harfbuzz_font_, map_textures_, op, text, ysize,
                 localVars, ret, ok, calls>>

\* FontManager::FontManager(): face_initialized_(false), then Initialize().
\* The object constructed takes the place of the destroyed manager; while
\* the manager is alive it is a second object, whose fields are not part
\* of the state.
Constructor(err) ==
  /\ Initialize(err)
  /\ op' = "FontManager"
  /\ IF manager = "destroyed"
     THEN /\ manager' = (IF pc' = "idle" THEN "alive" ELSE manager)
          /\ face_initialized_' = FALSE
          /\ font_data_' = ""
          /\ face_' = "unset"
          /\ harfbuzz_font_' = "unset"
          /\ face_header' = NoHeader
     ELSE UNCHANGED handleVars

\* ------------------------------------------------------------ Open, Close
\* LoadFile (utilities.h): the bytes of the file, or failure, which leaves
\* the destination as it was.
LoadFile(font_name, dest) ==
  IF font_name = "missing" THEN [ok |-> FALSE, data |-> dest]
  ELSE [ok |-> TRUE, data |-> font_name]

\* FT_New_Memory_Face: fails on bytes that are no font.
FT_New_Memory_Face(data) == data = "font"

\* bool FontManager::Open(const char *font_name); hb_font is what
\* hb_ft_font_create returns, a live font or nullptr.  When it is nullptr
\* the step ends after font_data_.clear() (line 292).
Open(font_name, hb_font) ==
  /\ pc = "idle"
  /\ manager = "alive"
  /\ ft_ = "live"
  /\ ~face_initialized_
  /\ op' = "Open"
  /\ LET loaded == LoadFile(font_name, font_data_) IN
     IF ~loaded.ok THEN
       \* Can't load font resource.
       /\ font_data_' = loaded.data
       /\ ok' = FALSE
       /\ UNCHANGED <<face_, harfbuzz_font_, face_initialized_, face_header,
                      pc>>
     ELSE IF ~FT_New_Memory_Face(loaded.data) THEN
       \* Failed to initialize font.
       /\ font_data_' = loaded.data
       /\ ok' = FALSE
       /\ UNCHANGED <<face_, harfbuzz_font_, face_initialized_, face_header,
                      pc>>
     ELSE IF hb_font = "null" THEN
       \* Failed to initialize harfbuzz layout information.
       /\ face_' = "live"
       /\ face_header' = FaceHeader
       /\ harfbuzz_font_' = "null"
       /\ font_data_' = ""
       /\ ok' = FALSE
       /\ pc' = "Open_FT_Done_Face"
       /\ UNCHANGED face_initialized_
     ELSE
       /\ font_data_' = loaded.data
       /\ face_' = "live"
       /\ face_header' = FaceHeader
       /\ harfbuzz_font_' = "live"
       /\ face_initialized_' = TRUE
       /\ ok' = TRUE
       /\ UNCHANGED pc
  /\ NoTextureCall
  /\ UNCHANGED <<sessionVars, manager, face_size, map_textures_, localVars,
                 glyph, calls>>

\* Lines 293-294 of Open: FT_Done_Face(face_); return false;
OpenDoneFace ==
  /\ pc = "Open_FT_Done_Face"
  /\ face_' = "destroyed"
  /\ face_header' = NoHeader
  /\ pc' = "idle"
  /\ UNCHANGED <<sessionVars, manager, face_initialized_, font_data_,
                 harfbuzz_font_, face_size, map_textures_, op, text, ysize,
                 localVars, glyph, ret, ok, calls>>

\* The first step of Close with the cache left as it is (a mutant of
\* CloseEnter).
CloseEnter_KeepsCache ==
  /\ pc = "idle"
  /\ manager = "alive"
  /\ op' = "Close"
  /\ ok' = FALSE
  /\ IF ~face_initialized_
     THEN UNCHANGED pc
     ELSE pc' = "hb_font_destroy"
  /\ NoTextureCall
  /\ UNCHANGED <<sessionVars, face_initialized_, font_data_, face_,
                 harfbuzz_font_, face_header, face_size, map_textures_,
                 localVars, glyph, calls>>

\* bool FontManager::Close(), lines 301-305, for both of its callers:
\* return false when no font is open, else clear the cache.
CloseEnter ==
  /\ pc = "idle"
  /\ manager = "alive"
  /\ op' = "Close"
  /\ ok' = FALSE
  /\ IF ~face_initialized_
     THEN UNCHANGED <<map_textures_, pc>>
     ELSE /\ map_textures_' = NoTextures
          /\ pc' = "hb_font_destroy"
  /\ NoTextureCall
  /\ UNCHANGED <<sessionVars, face_initialized_, font_data_, face_,
                 harfbuzz_font_, face_header, face_size, localVars, glyph,
                 calls>>

\* A call of Close by the program.
Close ==
  /\ CloseEnter
  /\ UNCHANGED manager

\* FontManager::~FontManager(): Close(), and the object is gone when Close
\* has returned.
Destructor ==
  /\ CloseEnter
  /\ manager' = IF face_initialized_ THEN "destroying" ELSE "destroyed"

\* Line 307: hb_font_destroy(harfbuzz_font_)
CloseDestroyFont ==
  /\ pc = "hb_font_destroy"
  /\ harfbuzz_font_' = "destroyed"
  /\ pc' = "FT_Done_Face"
  /\ UNCHANGED <<sessionVars, manager, face_initialized_, font_data_, face_,
                 face_header, face_size, map_textures_, op, text, ysize,
                 localVars, glyph, ret, ok, calls>>

\* Line 309: FT_Done_Face(face_); the header, the pixel size and the glyph
\* slot go with the face.
CloseDoneFace ==
  /\ pc = "FT_Done_Face"
  /\ face_' = "destroyed"
  /\ face_header' = NoHeader
  /\ face_size' = 0
  /\ glyph' = NoGlyph
  /\ pc' = "font_data_clear"
  /\ UNCHANGED <<sessionVars, manager, face_initialized_, font_data_,
                 harfbuzz_font_, map_textures_, op, text, ysize, localVars,
                 ret, ok, calls>>

\* Lines 311-315: font_data_.clear(); face_initialized_ = false;
\* return true;
CloseClearData ==
  /\ pc = "font_data_clear"
  /\ font_data_' = ""
  /\ face_initialized_' = FALSE
  /\ ok' = TRUE
  /\ manager' = IF manager = "destroying" THEN "destroyed" ELSE manager
  /\ pc' = "idle"
  /\ UNCHANGED <<sessionVars, face_, harfbuzz_font_, face_header, face_size,
                 map_textures_, op, text, ysize, localVars, glyph, ret,
                 calls>>

\* ------------------------------------------------------------ the image
\* The value of a byte that was allocated and never written.
Indeterminate == -1

\* new uint8_t[n]
NewImage(n) == [j \in 0 .. n - 1 |-> Indeterminate]

\* memset(&img[off], 0, n)
Memset(img, off, n) ==
  [j \in DOMAIN img |-> IF off <= j /\ j < off + n THEN 0 ELSE img[j]]

\* The copy placed at the start of dst, whatever the offset (a mutant of
\* Memcpy).
Memcpy_AtStart(dst, off, src, n) ==
  [j \in DOMAIN dst |->
     IF j < n
     THEN (IF j \in DOMAIN src THEN src[j] ELSE Indeterminate)
     ELSE dst[j]]

\* memcpy(&dst[off], &src[0], n) with dst and src two distinct arrays.
Memcpy(dst, off, src, n) ==
  [j \in DOMAIN dst |->
     IF off <= j /\ j < off + n
     THEN (IF j - off \in DOMAIN src THEN src[j - off] ELSE Indeterminate)
     ELSE dst[j]]

\* The orders in which memcpy may copy the bytes of overlapping ranges.
MemcpyOrders == {"ascending", "descending"}

\* memcpy(&img[off], &img[0], n) inside one array, off > 0.  The ranges
\* overlap when off < n, which memcpy leaves undefined: copying the bytes in
\* ascending order re-reads bytes it has already overwritten, copying in
\* descending order acts as memmove.
MemcpyWithin(img, off, n, order) ==
  [j \in DOMAIN img |->
     IF off <= j /\ j < off + n
     THEN (IF order = "ascending" THEN img[(j - off) % off] ELSE img[j - off])
     ELSE img[j]]

\* bool FontManager::ExpandBuffer(width, height, original_metrics,
\* new_metrics, image): the value returned, the image afterwards, and
\* whether the assertion internal_leading_change >= 0 failed.
ExpandBuffer(w, h, original_metrics, new_metrics, img, order) ==
  LET new_height == RoundUpToPowerOf2(total(new_metrics))
      internal_leading_change ==
        new_metrics.internal_leading - original_metrics.internal_leading
      clear_offset == total(original_metrics) + internal_leading_change
  IN
  IF total(original_metrics) = total(new_metrics) THEN
    [ret |-> FALSE, image |-> img, failed |-> FALSE]
  ELSE IF internal_leading_change < 0 THEN
    [ret |-> FALSE, image |-> img, failed |-> TRUE]
  ELSE IF h # new_height THEN
    [ret |-> TRUE,
     image |->
       Memset(
         Memset(
           Memcpy(NewImage(w * new_height), w * internal_leading_change,
                  img, w * total(original_metrics)),
           0, w * internal_leading_change),
         w * clear_offset, w * (new_height - clear_offset)),
     failed |-> FALSE]
  ELSE IF internal_leading_change > 0 THEN
    [ret |-> FALSE,
     image |->
       Memset(
         MemcpyWithin(img, w * internal_leading_change,
                      w * total(original_metrics), order),
         0, w * internal_leading_change),
     failed |-> FALSE]
  ELSE
    [ret |-> FALSE, image |-> img, failed |-> FALSE]

\* ------------------------------------------------------------ GetTexture
glyph_count == Len(harfbuzz_buf_)

\* new FontTexture: an address no live texture has.
NewTexture ==
  CHOOSE id \in 1 .. Cardinality(DOMAIN map_textures_) + 1 :
    \A t \in DOMAIN map_textures_ : map_textures_[t].id # id

\* The cache lookup made after the face was sized (a mutant of GetTextureHit).
GetTextureHit_SizesFace(t, y) ==
  /\ pc = "idle"
  /\ face_initialized_
  /\ t \in DOMAIN map_textures_
  /\ op' = "GetTexture"
  /\ text' = t
  /\ ysize' = y
  /\ face_size' = y
  /\ ret' = map_textures_[t].id
  /\ ok' = FALSE
  /\ UNCHANGED <<sessionVars, handleVars, map_textures_, pc,
                 localVars, glyph, calls>>

\* A lookup that takes the pixel size into account: the cached texture is
\* returned only at the pixel size it was made for, nullptr otherwise (a
\* mutant of GetTextureHit).
GetTextureHit_KeyedBySize(t, y) ==
  /\ pc = "idle"
  /\ face_initialized_
  /\ t \in DOMAIN map_textures_
  /\ op' = "GetTexture"
  /\ text' = t
  /\ ysize' = y
  /\ ret' = (IF map_textures_[t].metrics.ascender
                  - map_textures_[t].metrics.descender = y
             THEN map_textures_[t].id ELSE NULL)
  /\ ok' = FALSE
  /\ UNCHANGED <<sessionVars, handleVars, face_size, map_textures_, pc,
                 localVars, glyph, calls>>

\* Lines 69-71: the text is in the cache, its texture is returned.
GetTextureHit(t, y) ==
  /\ pc = "idle"
  /\ face_initialized_
  /\ t \in DOMAIN map_textures_
  /\ op' = "GetTexture"
  /\ text' = t
  /\ ysize' = y
  /\ ret' = map_textures_[t].id
  /\ ok' = FALSE
  /\ UNCHANGED <<sessionVars, handleVars, face_size, map_textures_, pc,
                 localVars, glyph, calls>>

\* Lines 78-123: a cache miss.  The face is sized, the text is added to the
\* shaping buffer behind whatever the buffer holds, the buffer is shaped,
\* and the image, the metrics and the pen are set up.
GetTextureMiss(t, y) ==
  /\ pc = "idle"
  /\ face_initialized_
  /\ t \notin DOMAIN map_textures_
  /\ op' = "GetTexture"
  /\ text' = t
  /\ ysize' = y
  /\ face_size' = y
  /\ harfbuzz_buf_' = hb_shape(harfbuzz_buf_ \o t)
  /\ LET sw == SumAdvance(harfbuzz_buf_', Len(harfbuzz_buf_')) \div kFreeTypeUnit
         w  == RoundUpToPowerOf2(sw)
         h  == RoundUpToPowerOf2(y)
     IN /\ string_width' = sw
        /\ width' = w
        /\ height' = h
        /\ initial_metrics' = InitialMetrics(face_header, y)
        /\ image' = ZeroImage(w * h)
  /\ atlasX' = kGlyphPadding
  /\ atlasY' = kGlyphPadding
  /\ i' = 1
  /\ pc' = "load"
  /\ ret' = NULL
  /\ ok' = FALSE
  /\ UNCHANGED <<ft_, hb_buffer, handleVars, map_textures_, glyph>>

\* hb_buffer_add_utf8 asserts that the buffer it appends to holds no shaped
\* glyphs: a build of the shaping library with assertions on stops here.
GetTextureAddAborts(t, y) ==
  /\ pc = "idle"
  /\ face_initialized_
  /\ t \notin DOMAIN map_textures_
  /\ harfbuzz_buf_ # <<>>
  /\ op' = "GetTexture"
  /\ text' = t
  /\ ysize' = y
  /\ face_size' = y
  /\ pc' = "hb_abort"
  /\ ret' = NULL
  /\ ok' = FALSE
  /\ UNCHANGED <<sessionVars, handleVars, map_textures_, localVars, glyph,
                 calls>>

\* A null return that leaves a null entry for the text in the cache, as a
\* lookup by map_textures_[text] would (a mutant of ReturnNull).
ReturnNull_CachesNull ==
  /\ ret' = NULL
  /\ pc' = "idle"
  /\ ClearLocals
  /\ map_textures_' =
       [t \in DOMAIN map_textures_ \cup {text} |->
          IF t = text
          THEN [id |-> NULL, image |-> ZeroImage(0), width |-> 0, height |-> 0,
                uv |-> [u |-> [num |-> 0, den |-> 1], v |-> [num |-> 0, den |-> 1]],
                metrics |-> NoMetrics]
          ELSE map_textures_[t]]
  /\ UNCHANGED <<sessionVars, handleVars, face_size, op,
                 text, ysize, ok, calls>>

\* return nullptr; from inside the glyph loop.
ReturnNull ==
  /\ ret' = NULL
  /\ pc' = "idle"
  /\ ClearLocals
  /\ UNCHANGED <<sessionVars, handleVars, face_size, map_textures_, op,
                 text, ysize, ok, calls>>

\* Line 130: FT_Load_Glyph renders glyph i into the glyph slot.
LoadGlyph ==
  /\ pc = "load"
  /\ i <= glyph_count
  /\ GlyphTable[harfbuzz_buf_[i]].loadable
  /\ glyph' = harfbuzz_buf_[i]
  /\ pc' = "refine"
  /\ UNCHANGED <<sessionVars, handleVars, face_size, map_textures_, op,
                 text, ysize, localVars, ret, ok, calls>>

\* Lines 130-136: FT_Load_Glyph fails.
LoadGlyphFails ==
  /\ pc = "load"
  /\ i <= glyph_count
  /\ ~GlyphTable[harfbuzz_buf_[i]].loadable
  /\ UNCHANGED glyph
  /\ ReturnNull

\* The internal leading taken from the current glyph alone, not as a running
\* maximum (a mutant of RefinedMetrics).
RefinedMetrics_NoMax(m, top, rows) ==
  LET il == top - m.ascender
      el == Min(m.external_leading, top - rows - m.descender)
  IN FontMetrics(il + m.ascender, il, m.ascender, m.descender, el)

\* The base line not moved with the internal leading (a mutant of
\* RefinedMetrics).
RefinedMetrics_KeepsBaseLine(m, top, rows) ==
  LET il == Max(m.internal_leading, top - m.ascender)
      el == Min(m.external_leading, top - rows - m.descender)
  IN FontMetrics(m.base_line, il, m.ascender, m.descender, el)

\* Lines 142-152: the metrics that make room for the glyph in the slot.
RefinedMetrics(m, top, rows) ==
  LET il == Max(m.internal_leading, top - m.ascender)
      el == Min(m.external_leading, top - rows - m.descender)
  IN FontMetrics(il + m.ascender, il, m.ascender, m.descender, el)

\* The tracked height set to the new total without rounding it up (a
\* mutant of HeightAfterExpand).
HeightAfterExpand_Total(expanded, new_metrics, h) ==
  IF expanded THEN total(new_metrics) ELSE h

\* The tracked height left as it was (a mutant of HeightAfterExpand).
HeightAfterExpand_Keeps(expanded, new_metrics, h) == h

\* Lines 156-158: the tracked height follows the image when ExpandBuffer
\* reports a reallocation.
HeightAfterExpand(expanded, new_metrics, h) ==
  IF expanded THEN RoundUpToPowerOf2(total(new_metrics)) ELSE h

\* Lines 140-161: metrics refinement, with the expansion of the image.
Refine ==
  /\ pc = "refine"
  /\ IF g.bitmap_top > initial_metrics.ascender
        \/ g.bitmap_top - g.rows < initial_metrics.descender
     THEN
       LET new_metrics ==
             RefinedMetrics(initial_metrics, g.bitmap_top, g.rows)
       IN
       IF total(new_metrics) # total(initial_metrics) THEN
         \E order \in MemcpyOrders :
           LET e == ExpandBuffer(width, height, initial_metrics,
                                 new_metrics, image, order)
           IN
           IF e.failed THEN
             \* assert(internal_leading_change >= 0) stops the process
             /\ pc' = "assert_failed"
             /\ UNCHANGED <<height, image, initial_metrics>>
           ELSE
             /\ image' = e.image
             /\ height' = HeightAfterExpand(e.ret, new_metrics, height)
             /\ initial_metrics' = new_metrics
             /\ pc' = "wrap"
       ELSE
         /\ initial_metrics' = new_metrics
         /\ pc' = "wrap"
         /\ UNCHANGED <<height, image>>
     ELSE
       /\ pc' = "wrap"
       /\ UNCHANGED <<height, image, initial_metrics>>
  /\ UNCHANGED <<sessionVars, handleVars, face_size, map_textures_, op,
                 text, ysize, string_width, width, atlasX, atlasY, i,
                 glyph, ret, ok, calls>>

\* Lines 163-166: the pen moves to the next line when the glyph would
\* reach the right edge.  The comparison is one of uint32_t values.
WrapNeeded ==
  UGeq32(atlasX + g.width + g.bitmap_left, width - kGlyphPadding)

Wrap ==
  /\ pc = "wrap"
  /\ IF WrapNeeded
     THEN /\ atlasY' = atlasY + ysize + kGlyphPadding
          /\ atlasX' = kGlyphPadding
     ELSE UNCHANGED <<atlasX, atlasY>>
  /\ pc' = "check"
  /\ UNCHANGED <<sessionVars, handleVars, face_size, map_textures_, op,
                 text, ysize, string_width, width, height,
                 initial_metrics, image, i, glyph, ret, ok, calls>>

\* Line 168: the overflow test on the glyph in the slot.
Overflows ==
  UGeq32(atlasY + initial_metrics.base_line + g.rows - g.bitmap_top,
         height - kGlyphPadding)

\* Lines 168-174: the text does not fit into the texture.
CheckFails ==
  /\ pc = "check"
  /\ Overflows
  /\ UNCHANGED glyph
  /\ ReturnNull

CheckPasses ==
  /\ pc = "check"
  /\ ~Overflows
  /\ pc' = "blit"
  /\ UNCHANGED <<sessionVars, handleVars, face_size, map_textures_, op,
                 text, ysize, localVars, glyph, ret, ok, calls>>

\* Lines 177-185: the writes of the copy loop, one per source pixel (x, y)
\* that passes the test y_offset + y >= 0: row and column are the
\* destination the index (row * width + column) is computed from.
y_offset == initial_metrics.base_line - g.bitmap_top

BlitWrites ==
  {[x |-> x, y |-> y,
    row |-> atlasY + y + y_offset,
    column |-> atlasX + x + g.bitmap_left,
    index |-> (atlasY + y + y_offset) * width + atlasX + x + g.bitmap_left] :
      <<x, y>> \in {p \in (0 .. g.width - 1) \X (0 .. g.rows - 1) :
                      y_offset + p[2] >= 0}}

\* A write of the copy loop falls outside the allocated image.
BlitOutside == \E wr \in BlitWrites : wr.index \notin DOMAIN image

\* The image after the copy loop: each byte holds the value of the last
\* write to it, in the loop's order (y outer, x inner).
BlitImage ==
  LET writes == BlitWrites IN
  [j \in DOMAIN image |->
     LET ws == {wr \in writes : wr.index = j} IN
     IF ws = {} THEN image[j]
     ELSE LET last == CHOOSE wr \in ws :
                        \A o \in ws : o.y * g.width + o.x <= wr.y * g.width + wr.x
          IN BitmapPixel(glyph, last.x, last.y)]

\* Lines 176-189: copy the glyph and advance the pen.  Writes outside the
\* image, if any, land in memory that is not the image.
Blit ==
  /\ pc = "blit"
  /\ image' = BlitImage
  /\ atlasX' = atlasX + (g.x_advance \div kFreeTypeUnit) + kGlyphPadding
  /\ atlasY' = atlasY - ((g.y_advance \div kFreeTypeUnit) + kGlyphPadding)
  /\ i' = i + 1
  /\ pc' = "load"
  /\ UNCHANGED <<sessionVars, handleVars, face_size, map_textures_, op,
                 text, ysize, string_width, width, height,
                 initial_metrics, glyph, ret, ok, calls>>

\* A write outside the image is undefined: the process may also stop.
BlitCrashes ==
  /\ pc = "blit"
  /\ BlitOutside
  /\ pc' = "crashed"
  /\ UNCHANGED <<sessionVars, handleVars, face_size, map_textures_, op,
                 text, ysize, localVars, glyph, ret, ok, calls>>

\* Lines 192-204: the texture made of the image, the UV rectangle
\* (0, 0, string_width / width, total / height) and the metrics.
FontTexture(id) ==
  [id |-> id, image |-> image, width |-> width, height |-> height,
   uv |-> [u |-> [num |-> string_width, den |-> width],
           v |-> [num |-> total(initial_metrics), den |-> height]],
   metrics |-> initial_metrics]

\* Lines 192-212: every glyph is done; the texture is created, the shaping
\* buffer is cleared, the texture is put into the cache and returned.
Finalize ==
  /\ pc = "load"
  /\ i > glyph_count
  /\ LET tex == FontTexture(NewTexture) IN
     /\ map_textures_' =
          [t \in DOMAIN map_textures_ \cup {text} |->
             IF t = text THEN tex ELSE map_textures_[t]]
     /\ ret' = tex.id
  /\ harfbuzz_buf_' = <<>>
  /\ pc' = "idle"
  /\ ClearLocals
  /\ UNCHANGED <<ft_, hb_buffer, handleVars, face_size, op, text, ysize,
                 glyph, ok, calls>>

\* ------------------------------------------------------- specifications
RECURSIVE SeqsUpTo(_, _)
SeqsUpTo(S, n) ==
  IF n = 0 THEN {<<>>}
  ELSE LET shorter == SeqsUpTo(S, n - 1) IN
       shorter \cup {Append(q, c) : q \in {r \in shorter : Len(r) = n - 1}, c \in S}

\* Texts of the pipeline specification: every text of at most MaxLen
\* characters.
PipelineTexts == SeqsUpTo(Chars, MaxLen)

\* Texts of the cache specification.
CacheTexts == {<<>>, <<11>>, <<13>>, <<14>>, <<16>>, <<11, 16>>, <<11, 11>>}

\* The steps that continue an Open or a Close.
HandleSteps ==
  \/ OpenDoneFace
  \/ CloseDestroyFont
  \/ CloseDoneFace
  \/ CloseClearData

GlyphLoop ==
  \/ LoadGlyph
  \/ LoadGlyphFails
  \/ Refine
  \/ Wrap
  \/ CheckFails
  \/ CheckPasses
  \/ Blit
  \/ BlitCrashes
  \/ Finalize

\* The cache specification: any sequence of Open, Close and GetTexture
\* calls, with at most MaxCalls cache misses.
Next ==
  \/ \E n \in FontNames, hb \in {"live", "null"} : Open(n, hb)
  \/ Close
  \/ \E t \in {c \in DOMAIN map_textures_ : c \in CacheTexts}, y \in YSizes :
       GetTextureHit(t, y)
  \/ \E t \in CacheTexts, y \in YSizes :
       /\ calls < MaxCalls
       /\ GetTextureMiss(t, y)
       /\ calls' = calls + 1
  \/ \E t \in CacheTexts, y \in YSizes :
       /\ calls < MaxCalls
       /\ GetTextureAddAborts(t, y)
  \/ HandleSteps
  \/ GlyphLoop

Spec == Init /\ [][Next]_vars

\* The pipeline specification: GetTexture on every text of at most MaxLen
\* characters, each call starting from an empty cache and an empty
\* shaping buffer.
NextPipeline ==
  \/ \E n \in FontNames, hb \in {"live", "null"} : Open(n, hb)
  \/ Close
  \/ \E t \in {c \in DOMAIN map_textures_ : c \in PipelineTexts}, y \in YSizes :
       GetTextureHit(t, y)
  \/ /\ pc = "idle"
     /\ map_textures_ = NoTextures
     /\ harfbuzz_buf_ = <<>>
     /\ \E t \in PipelineTexts, y \in YSizes :
          /\ GetTextureMiss(t, y)
          /\ UNCHANGED calls
  \/ HandleSteps
  \/ GlyphLoop

SpecPipeline == Init /\ [][NextPipeline]_vars

\* The session specification: the program calls Initialize and Terminate
\* itself, around and between the calls of Open, Close and GetTexture, of
\* which it starts at most MaxSessionCalls cache misses.  A call on the
\* font handle is made while the session the handle was opened in exists.
HandleInSession ==
  /\ ft_ = "live"
  /\ hb_buffer = "live"
  /\ face_initialized_ => face_ = "live"

NextSession ==
  \/ \E err \in {0, 1} : InitializeCall(err)
  \/ Terminate
  \/ TerminateDoneLibrary
  \/ HandleInSession /\ \E n \in FontNames, hb \in {"live", "null"} : Open(n, hb)
  \/ HandleInSession /\ Close
  \/ /\ HandleInSession
     /\ \E t \in {c \in DOMAIN map_textures_ : c \in CacheTexts}, y \in YSizes :
          GetTextureHit(t, y)
  \/ /\ HandleInSession
     /\ calls < MaxSessionCalls
     /\ \E t \in CacheTexts, y \in YSizes :
          GetTextureMiss(t, y) /\ calls' = calls + 1
  \/ /\ HandleInSession
     /\ calls < MaxSessionCalls
     /\ \E t \in CacheTexts, y \in YSizes : GetTextureAddAborts(t, y)
  \/ HandleSteps
  \/ GlyphLoop

SpecSession == Init /\ [][NextSession]_vars

\* The lifetime specification: managers are constructed and destroyed, and
\* the manager is used in between; the program never calls Initialize or
\* Terminate itself.
NextLifetime ==
  \/ \E err \in {0, 1} : Constructor(err)
  \/ Destructor
  \/ \E n \in FontNames, hb \in {"live", "null"} : Open(n, hb)
  \/ Close
  \/ \E t \in {c \in DOMAIN map_textures_ : c \in CacheTexts}, y \in YSizes :
       GetTextureHit(t, y)
  \/ /\ calls < MaxSessionCalls
     /\ \E t \in CacheTexts, y \in YSizes :
          GetTextureMiss(t, y) /\ calls' = calls + 1
  \/ /\ calls < MaxSessionCalls
     /\ \E t \in CacheTexts, y \in YSizes : GetTextureAddAborts(t, y)
  \/ HandleSteps
  \/ GlyphLoop

SpecLifetime == Init /\ [][NextLifetime]_vars

\* The metrics specification: lines 112-113 applied to every face header
\* and every pixel size of the bounds.
FaceHeaders ==
  [ascender : (-MaxAscender) .. MaxAscender, units_per_EM : 1 .. MaxUnitsPerEM]

InitMetrics ==
  /\ ft_ = "live"
  /\ hb_buffer = "live"
  /\ harfbuzz_buf_ = <<>>
  /\ manager = "alive"
  /\ face_initialized_ = TRUE
  /\ font_data_ = "font"
  /\ face_ = "live"
  /\ harfbuzz_font_ = "live"
  /\ face_header \in FaceHeaders
  /\ face_size \in 1 .. MaxYSize
  /\ map_textures_ = NoTextures
  /\ op = "GetTexture"
  /\ text = <<>>
  /\ ysize = face_size
  /\ pc = "metrics"
  /\ string_width = 0
  /\ width = 0
  /\ height = 0
  /\ initial_metrics = NoMetrics
  /\ image = ZeroImage(0)
  /\ atlasX = 0
  /\ atlasY = 0
  /\ i = 0
  /\ glyph = NoGlyph
  /\ ret = NULL
  /\ ok = FALSE
  /\ calls = 0

SetInitialMetrics ==
  /\ pc = "metrics"
  /\ initial_metrics' = InitialMetrics(face_header, ysize)
  /\ pc' = "metrics_done"
  /\ UNCHANGED <<sessionVars, handleVars, face_size, map_textures_, op,
                 text, ysize, string_width, width, height, image, atlasX,
                 atlasY, i, glyph, ret, ok, calls>>

SpecMetrics == InitMetrics /\ [][SetInitialMetrics]_vars

\* ================================================================ claims
InCall == pc \in {"load", "refine", "wrap", "check", "blit"}

\* C1: a GetTexture call on a cached text returns the cached texture at
\* once and changes nothing (face size, shaping buffer, cache, locals, glyph
\* slot); a cached texture stays in the cache unchanged until Close; and the
\* texture a cache miss returns is the one it has put into the cache.
C1_CacheIdentity ==
  [][ /\ (pc = "idle" /\ op' = "GetTexture" /\ text' \in DOMAIN map_textures_)
        => /\ pc' = "idle"
           /\ ret' = map_textures_[text'].id
           /\ UNCHANGED <<harfbuzz_buf_, map_textures_, face_size, glyph,
                          localVars, handleVars>>
      /\ op' # "Close"
        => \A t \in DOMAIN map_textures_ :
             t \in DOMAIN map_textures_' /\ map_textures_'[t] = map_textures_[t]
      /\ (InCall /\ pc' = "idle" /\ ret' # NULL)
        => text \in DOMAIN map_textures_' /\ map_textures_'[text].id = ret'
    ]_vars

\* C1 witness: with two textures cached, the latest call asked for the
\* older one, at the pixel size it was made with, and got it.
C1_Witness ==
  /\ pc = "idle" /\ op = "GetTexture"
  /\ Cardinality(DOMAIN map_textures_) = 2
  /\ text \in DOMAIN map_textures_
  /\ map_textures_[text].id = 1
  /\ ret = 1
  /\ map_textures_[text].metrics.ascender
       - map_textures_[text].metrics.descender = ysize

\* C2: a step that starts or continues a GetTexture call, or ends it with
\* a null result, leaves the cache as it was, and after a null result the
\* text is not in the cache.
C2_FailureLeavesCache ==
  [][ /\ (op' = "GetTexture" /\ (pc' # "idle" \/ (InCall /\ ret' = NULL)))
        => map_textures_' = map_textures_
      /\ (InCall /\ pc' = "idle" /\ ret' = NULL)
        => text' \notin DOMAIN map_textures_'
    ]_vars

\* C2 witness: GetTexture has returned null through the overflow check (no
\* glyph of the buffer fails to load) while the cache holds a texture.
C2_Witness ==
  /\ pc = "idle" /\ op = "GetTexture" /\ ret = NULL
  /\ map_textures_ # NoTextures
  /\ text \notin DOMAIN map_textures_
  /\ harfbuzz_buf_ # <<>>
  /\ \A k \in 1 .. Len(harfbuzz_buf_) : GlyphTable[harfbuzz_buf_[k]].loadable

\* C3: whenever a cache miss adds its text to the shaping buffer, the
\* buffer is empty.
C3_BufferEmptyAtAdd ==
  [][ (pc = "idle" /\ pc' \in {"load", "hb_abort"}) => harfbuzz_buf_ = <<>> ]_vars

\* C10: after Open has returned false the manager holds no font bytes, no
\* live face, no live shaping font, and is not marked initialized.
C10_OpenFailureKeepsNothing ==
  (pc = "idle" /\ op = "Open" /\ ~ok)
    => /\ font_data_ = ""
       /\ face_ # "live"
       /\ harfbuzz_font_ # "live"
       /\ ~face_initialized_

\* C4: every write of the copy loop has its row in [0, height) and its
\* column in [0, width).
C4_BlitContainment ==
  pc = "blit"
    => \A wr \in BlitWrites :
         /\ 0 <= wr.row /\ wr.row < height
         /\ 0 <= wr.column /\ wr.column < width

\* C5: every cached texture has power-of-two width and height, and both UV
\* extents string_width / width and total / height lie in [0, 1].
C5_DimensionsAndUV ==
  \A t \in DOMAIN map_textures_ :
    LET tex == map_textures_[t] IN
    /\ IsPowerOf2(tex.width) /\ IsPowerOf2(tex.height)
    /\ tex.uv.u.den = tex.width /\ tex.uv.v.den = tex.height
    /\ 0 <= tex.uv.u.num /\ tex.uv.u.num <= tex.width
    /\ tex.uv.v.num = total(tex.metrics)
    /\ 0 <= tex.uv.v.num /\ tex.uv.v.num <= tex.height

\* C5 witness: a cached texture whose metrics were refined upwards and
\* downwards and whose image was reallocated to a greater height.
C5_Witness ==
  /\ pc = "idle"
  /\ \E t \in DOMAIN map_textures_ :
       LET tex == map_textures_[t] IN
       /\ tex.metrics.internal_leading > 0
       /\ tex.metrics.external_leading < 0
       /\ tex.height >
            RoundUpToPowerOf2(tex.metrics.ascender - tex.metrics.descender)

\* C6: in every cached texture every non-zero pixel lies in the top-left
\* rectangle of string_width columns by total rows.
C6_UsedSubregion ==
  \A t \in DOMAIN map_textures_ :
    LET tex == map_textures_[t] IN
    \A j \in DOMAIN tex.image :
      tex.image[j] # 0
        => /\ j % tex.width < tex.uv.u.num
           /\ j \div tex.width < tex.uv.v.num

\* C7: from one step of a GetTexture call to the next, internal_leading
\* does not decrease and external_leading does not increase, and the
\* assertion of ExpandBuffer does not fail.
C7_MetricMonotonicity ==
  [][ (InCall /\ pc' # "idle")
        => /\ initial_metrics'.internal_leading >= initial_metrics.internal_leading
           /\ initial_metrics'.external_leading <= initial_metrics.external_leading
           /\ pc' # "assert_failed"
    ]_vars

\* C7 witness: a glyph that is not the first has been refined for, its bottom
\* set the external leading (which calls ExpandBuffer), and the internal
\* leading kept the greater value an earlier glyph gave it.
C7_Witness ==
  /\ pc = "wrap"
  /\ i >= 2
  /\ initial_metrics.internal_leading > 0
  /\ g.bitmap_top - initial_metrics.ascender < initial_metrics.internal_leading
  /\ initial_metrics.external_leading < 0
  /\ g.bitmap_top - g.rows - initial_metrics.descender
       = initial_metrics.external_leading

AfterRefine == pc \in {"wrap", "check", "blit"}

\* C8 as stated: after the refinement for the glyph in the slot, its top is
\* at most the base line and its bottom is at least
\* base_line - (ascender - descender + internal_leading + external_leading).
C8_AsStated ==
  AfterRefine
    => /\ g.bitmap_top <= initial_metrics.base_line
       /\ g.bitmap_top - g.rows >=
            initial_metrics.base_line
              - (initial_metrics.ascender - initial_metrics.descender
                 + initial_metrics.internal_leading
                 + initial_metrics.external_leading)

\* C8 amended: after the refinement for the glyph in the slot, its top is
\* at most the base line, its bottom is at least base_line - total(),
\* total() being internal_leading + ascender - descender - external_leading,
\* and the blit offset base_line - bitmap_top is not negative.
C8_PerGlyphMetrics ==
  AfterRefine
    => /\ g.bitmap_top <= initial_metrics.base_line
       /\ g.bitmap_top - g.rows >=
            initial_metrics.base_line - total(initial_metrics)
       /\ y_offset >= 0

\* C8 witness: the glyph in the slot reaches above the ascender, and the
\* metrics carry both leadings.
C8_Witness ==
  /\ pc = "wrap"
  /\ g.bitmap_top > initial_metrics.ascender
  /\ initial_metrics.base_line = g.bitmap_top
  /\ initial_metrics.external_leading < 0

\* Index of the last image row the glyph in the slot needs at the pen.
LastRow == atlasY + initial_metrics.base_line - g.bitmap_top + g.rows - 1

\* C9: the overflow check rejects a glyph only if its last row is at or
\* beyond height.
C9_OverflowOnlyWhenNoFit ==
  (pc = "check" /\ Overflows) => LastRow >= height

\* C11: whenever a face is live the font bytes it reads are held; a live
\* shaping font has a live face; and cached textures exist only while the
\* shaping font is live (the releases come in the order cache, shaping
\* font, face, bytes).
C11_ReleaseOrder ==
  /\ face_ = "live" => font_data_ # ""
  /\ harfbuzz_font_ = "live" => face_ = "live"
  /\ map_textures_ # NoTextures => harfbuzz_font_ = "live"

\* C12: a Close call on a manager with no open font returns false at once
\* and leaves the cache, the font bytes, the face, the shaping font and
\* the initialized flag as they were; a Close call on a manager with an
\* open font goes on, and when it returns it returns true with the cache
\* empty and the manager not initialized (so that a Close call that
\* follows returns false).
C12_CloseIdempotence ==
  [][ /\ (pc = "idle" /\ op' = "Close" /\ ~face_initialized_)
        => /\ pc' = "idle"
           /\ ~ok'
           /\ UNCHANGED <<map_textures_, font_data_, face_, harfbuzz_font_,
                          face_initialized_>>
      /\ (pc = "idle" /\ op' = "Close" /\ face_initialized_)
        => pc' = "hb_font_destroy"
      /\ (pc = "hb_font_destroy" => pc' = "FT_Done_Face")
      /\ (pc = "FT_Done_Face" => pc' = "font_data_clear")
      /\ (pc = "font_data_clear")
        => /\ pc' = "idle"
           /\ op' = "Close"
           /\ ok'
           /\ map_textures_' = NoTextures
           /\ ~face_initialized_'
    ]_vars

\* C12 witness: Close has returned true on a manager that had an open font
\* and had started a cache miss; nothing is cached any more.
C12_Witness ==
  /\ pc = "idle" /\ op = "Close" /\ ok
  /\ calls > 0
  /\ harfbuzz_buf_ = <<>>
  /\ map_textures_ = NoTextures
  /\ ~face_initialized_
  /\ face_ = "destroyed"

\* C13: after Terminate has returned, the library, the shaping buffer, the
\* face and the shaping font are not live and both session pointers are
\* null; and the shaping buffer is never live without the library.
C13_NoHandleAfterTerminate ==
  /\ (pc = "idle" /\ op = "Terminate")
       => /\ ft_ = "null"
          /\ hb_buffer = "null"
          /\ face_ # "live"
          /\ harfbuzz_font_ # "live"
  /\ hb_buffer = "live" => ft_ = "live"

\* C14: a refinement step that calls ExpandBuffer with a new power-of-two
\* height different from the current one leaves an image of width x
\* new_height bytes in which the old rows [0, old_total) lie di rows lower,
\* di being the increase of internal_leading, and every other row is zero;
\* the bytes read are inside the old image, the bytes written inside the
\* new one.
C14_Reallocation ==
  [][ ( /\ pc = "refine" /\ pc' = "wrap"
        /\ total(initial_metrics') # total(initial_metrics)
        /\ RoundUpToPowerOf2(total(initial_metrics')) # height )
        => LET di == initial_metrics'.internal_leading
                       - initial_metrics.internal_leading
               old_total == total(initial_metrics)
               new_height == RoundUpToPowerOf2(total(initial_metrics'))
           IN /\ DOMAIN image' = 0 .. width * new_height - 1
              /\ \A r \in 0 .. old_total - 1, c \in 0 .. width - 1 :
                   /\ r * width + c \in DOMAIN image
                   /\ (r + di) * width + c \in DOMAIN image'
                   /\ image'[(r + di) * width + c] = image[r * width + c]
              /\ \A r \in 0 .. new_height - 1, c \in 0 .. width - 1 :
                   (r < di \/ r >= di + old_total)
                     => image'[r * width + c] = 0
    ]_vars

\* C14 witness: the second glyph has been refined for; the first glyph lies
\* in the image and gave no internal leading, the second glyph gave one, and
\* the height is greater than the power of two the total without that
\* internal leading rounds up to, so that this refinement reallocated and
\* moved the first glyph down.
C14_Witness ==
  /\ pc = "wrap"
  /\ i = 2
  /\ GlyphTable[harfbuzz_buf_[1]].bitmap_top <= initial_metrics.ascender
  /\ initial_metrics.internal_leading > 0
  /\ RoundUpToPowerOf2(total(initial_metrics)
                         - initial_metrics.internal_leading) < height
  /\ \E j \in DOMAIN image : image[j] # 0

\* C15: a refinement step that calls ExpandBuffer with the power-of-two
\* height unchanged and an increase di > 0 of internal_leading leaves an
\* image in which the old rows [0, old_total) lie di rows lower, rows
\* [0, di) are zero and rows [di + old_total, height) are zero.
C15_ShiftInPlace ==
  [][ ( /\ pc = "refine" /\ pc' = "wrap"
        /\ total(initial_metrics') # total(initial_metrics)
        /\ RoundUpToPowerOf2(total(initial_metrics')) = height
        /\ initial_metrics'.internal_leading
             > initial_metrics.internal_leading )
        => LET di == initial_metrics'.internal_leading
                       - initial_metrics.internal_leading
               old_total == total(initial_metrics)
           IN /\ \A r \in 0 .. old_total - 1, c \in 0 .. width - 1 :
                   image'[(r + di) * width + c] = image[r * width + c]
              /\ \A r \in 0 .. height - 1, c \in 0 .. width - 1 :
                   (r < di \/ r >= di + old_total)
                     => image'[r * width + c] = 0
    ]_vars

\* C16: ExpandBuffer returns true exactly when the totals differ and the
\* new total rounds up to a power of two other than the current height,
\* GetTexture then sets its height to that power of two, and whenever the
\* glyph loop is at its head (the next glyph or the finalization) the
\* height is RoundUpToPowerOf2(total) and the image has width x height
\* bytes.
C16_TrackedHeight ==
  [][ /\ (pc = "refine")
        => \A order \in MemcpyOrders :
             ~ExpandBuffer(width, height, initial_metrics, initial_metrics,
                           image, order).ret
      /\ ( /\ pc = "refine" /\ pc' = "wrap"
           /\ total(initial_metrics') # total(initial_metrics) )
        => \A order \in MemcpyOrders :
             LET e == ExpandBuffer(width, height, initial_metrics,
                                   initial_metrics', image, order)
                 new_height == RoundUpToPowerOf2(total(initial_metrics'))
             IN /\ e.ret <=> (new_height # height)
                /\ height' = IF e.ret THEN new_height ELSE height
      /\ (pc' = "load")
        => /\ height' = RoundUpToPowerOf2(total(initial_metrics'))
           /\ DOMAIN image' = 0 .. width' * height' - 1
    ]_vars

\* C16 witness: the loop is at its head after a glyph whose refinement
\* reallocated the image: the height is above the one the image was
\* allocated with.
C16_Witness ==
  /\ pc = "load"
  /\ i >= 2
  /\ height > RoundUpToPowerOf2(ysize)
  /\ height = RoundUpToPowerOf2(total(initial_metrics))

\* C17: for every face header with units_per_EM > 0 and every integer
\* ysize > 0 the metrics GetTexture starts from have ascender = base_line =
\* ysize * face.ascender / units_per_EM as an integer, both leadings 0,
\* descender = ascender - ysize, total() = ysize, ascender >= 0 and
\* descender <= 0.
C17_InitialMetrics ==
  pc = "metrics_done"
    => LET m == initial_metrics
           q == TruncDiv(ysize * face_header.ascender,
                         face_header.units_per_EM)
       IN /\ m.ascender = q
          /\ m.base_line = q
          /\ m.internal_leading = 0
          /\ m.external_leading = 0
          /\ m.descender = m.ascender - ysize
          /\ total(m) = ysize
          /\ m.ascender >= 0
          /\ m.descender <= 0

\* The pixel size a cached texture was made for.
MadeForSize(tex) == tex.metrics.ascender - tex.metrics.descender

\* C18: a GetTexture call on a cached text, at any pixel size, returns the
\* cached texture, which carries the metrics, the dimensions and the UV
\* rectangle of the call that made it, and leaves the pixel size of the
\* face, the shaping buffer and the cache as they were.
C18_HitIgnoresSize ==
  [][ (pc = "idle" /\ op' = "GetTexture" /\ text' \in DOMAIN map_textures_)
        => LET tex == map_textures_[text'] IN
           /\ pc' = "idle"
           /\ ret' = tex.id
           /\ map_textures_' = map_textures_
           /\ face_size' = face_size
           /\ harfbuzz_buf_' = harfbuzz_buf_
           /\ tex.metrics.ascender
                = InitialMetrics(FaceHeader, MadeForSize(tex)).ascender
    ]_vars

\* C18 witness: the latest call asked for a cached text at a pixel size
\* other than the one its texture was made for, and got that texture; the
\* face keeps a pixel size that is not the one asked for.
C18_Witness ==
  /\ pc = "idle" /\ op = "GetTexture"
  /\ text \in DOMAIN map_textures_
  /\ ret = map_textures_[text].id
  /\ MadeForSize(map_textures_[text]) # ysize
  /\ face_size # ysize

\* C19: every construction of a FontManager finds no session (ft_ is
\* null).
C19_NoSessionAtConstruction ==
  [][ (pc = "idle" /\ op' = "FontManager") => ft_ = "null" ]_vars

====
